---- MODULE Spec2Model ----
(***************************************************************************)
(* The upload page of the invoice extractor                                *)
(* (src/frontend/src/app/upload/page.tsx): the React state of UploadPage,  *)
(* the asynchronous handleUpload read loop that consumes the               *)
(* Server-Sent-Events stream, the handlers that clear the session, the     *)
(* three modals, the edit form (handleEditField) and the save              *)
(* (handleSaveEdits).                                                      *)
(*                                                                         *)
(* Text is a sequence of symbols; each symbol stands for a run of          *)
(* characters of the wire text that the program never splits further       *)
(* (NL is one "\n").  React state setters are applied in program order.    *)
(***************************************************************************)
EXTENDS Integers, Sequences, FiniteSets, TLC

(***************************************************************************)
(* Bounds of the model.                                                    *)
(***************************************************************************)
MaxFrames == 3
MaxPageFrames == 2
MaxSessions == 2
MaxEdits == 2
MaxUiFrames == 1
MaxOrdersRequests == 3
MaxDetailsRequests == 2

(***************************************************************************)
(* JavaScript values.                                                      *)
(***************************************************************************)
NULL == [null |-> TRUE]
UNDEF == "<undefined>"
UndefData == [undefined |-> TRUE]
UndefError == [undefined |-> TRUE]

Truthy(s) == s # UNDEF /\ s # ""

NL == "\n"
DataPrefix == <<"data:", " ">>

Front(s) == SubSeq(s, 1, Len(s) - 1)
Last(s) == s[Len(s)]

(***************************************************************************)
(* String.prototype.split("\n\n"): the pieces between successive           *)
(* non-overlapping occurrences of the separator, scanning left to right.   *)
(***************************************************************************)
RECURSIVE SplitFrom(_, _, _, _)
SplitFrom(s, i, cur, acc) ==
    IF i > Len(s) THEN Append(acc, cur)
    ELSE IF i < Len(s) /\ s[i] = NL /\ s[i + 1] = NL
         THEN SplitFrom(s, i + 2, <<>>, Append(acc, cur))
         ELSE SplitFrom(s, i + 1, Append(cur, s[i]), acc)

Split(s) == SplitFrom(s, 1, <<>>, <<>>)

StartsWith(s, p) == Len(s) >= Len(p) /\ SubSeq(s, 1, Len(p)) = p
Slice(s, n) == SubSeq(s, n + 1, Len(s))

(***************************************************************************)
(* The payloads the server side of the model puts on the wire, and what    *)
(* JSON.parse makes of a payload text.  A parsed event carries every       *)
(* property the read loop looks at; a property the JSON text lacks reads   *)
(* as undefined.                                                           *)
(***************************************************************************)
Event(type, success, data, error, step, status, message) ==
    [type |-> type, success |-> success, data |-> data, error |-> error,
     step |-> step, status |-> status, message |-> message]

StepEvent(step, status, message) ==
    Event(UNDEF, FALSE, UndefData, UndefError, step, status, message)

ResultEvent(success, data, error) ==
    Event("result", success, data, error, UNDEF, UNDEF, UNDEF)

(***************************************************************************)
(* ExtractedData.  A number is held as an integer count of                 *)
(* ten-thousandths, so that amounts with two decimals and their products   *)
(* with a whole percentage divided by 100 are exact; quantities and        *)
(* tax_rate are whole numbers.  Arithmetic is that of real numbers: the    *)
(* rounding of IEEE doubles is not modelled.  bill_to and ship_to, which   *)
(* no handler reads or writes, are left out.                               *)
(***************************************************************************)
Amount(units, cents) == (units * 100 + cents) * 100

HeaderX ==
    [invoice_number |-> "INV-1", date |-> "2024-01-15",
     customer_id |-> "C-1", company_name |-> "Acme"]

LineItem(item_number, description, quantity, unit_price, total) ==
    [item_number |-> item_number, description |-> description,
     quantity |-> quantity, unit_price |-> unit_price, total |-> total]

Totals(subtotal, tax_rate, tax_amount, shipping, total) ==
    [subtotal |-> subtotal, tax_rate |-> tax_rate, tax_amount |-> tax_amount,
     shipping |-> shipping, total |-> total]

(***************************************************************************)
(* InvoiceX is an extraction whose totals agree with its line items;       *)
(* InvoiceY is one where the extractor read a line total, the subtotal,    *)
(* the tax and the total off the paper and they do not agree.              *)
(***************************************************************************)
InvoiceX ==
    [header |-> HeaderX,
     line_items |-> << LineItem("A-1", "Widget", 2, Amount(10, 0), Amount(20, 0)),
                       LineItem("B-2", "Gadget", 1, Amount(80, 0), Amount(80, 0)) >>,
     totals |-> Totals(Amount(100, 0), 8, Amount(8, 0), Amount(5, 0),
                       Amount(113, 0))]
InvoiceY ==
    [header |-> HeaderX,
     line_items |-> << LineItem("A-1", "Widget", 2, Amount(10, 0), Amount(20, 0)),
                       LineItem("B-2", "Gadget", 1, Amount(80, 0), Amount(75, 0)) >>,
     totals |-> Totals(Amount(90, 0), 8, Amount(7, 0), Amount(5, 0),
                       Amount(100, 0))]

DataX == [extraction |-> [data |-> InvoiceX],
          database |-> [saved |-> FALSE]]
DataY == [extraction |-> [data |-> InvoiceY],
          database |-> [saved |-> FALSE]]
DataSavedX == [extraction |-> [data |-> InvoiceX],
               database |-> [saved |-> TRUE, order_id |-> [id |-> "order"]]]
ErrorE == [code |-> "ERR_EXTRACTION", message |-> "Extraction failed"]

Doc(text, value) == [text |-> text, value |-> value]

AnalyzeActiveM ==
    Doc(<<"{step:analyze,status:active,", "message:m}">>,
        StepEvent("analyze", "active", "m"))
AnalyzeComplete ==
    Doc(<<"{step:analyze,", "status:complete}">>,
        StepEvent("analyze", "complete", UNDEF))
AnalyzeErrorEmpty ==
    Doc(<<"{step:analyze,status:error,", "message:}">>,
        StepEvent("analyze", "error", ""))
AnalyzeCompleteN ==
    Doc(<<"{step:analyze,status:complete,", "message:n}">>,
        StepEvent("analyze", "complete", "n"))
OcrActiveN ==
    Doc(<<"{step:ocr,status:active,", "message:n}">>,
        StepEvent("ocr", "active", "n"))
ResultSuccessX ==
    Doc(<<"{type:result,success:true,", "data:X}">>,
        ResultEvent(TRUE, DataX, UndefError))
ResultSuccessNoData ==
    Doc(<<"{type:result,", "success:true}">>,
        ResultEvent(TRUE, UndefData, UndefError))
ResultSuccessY ==
    Doc(<<"{type:result,success:true,", "data:Y}">>,
        ResultEvent(TRUE, DataY, UndefError))
ResultSuccessSavedX ==
    Doc(<<"{type:result,success:true,", "data:X,saved}">>,
        ResultEvent(TRUE, DataSavedX, UndefError))
ResultFailureE ==
    Doc(<<"{type:result,success:false,", "error:E}">>,
        ResultEvent(FALSE, UndefData, ErrorE))

JsonDocs ==
    { AnalyzeActiveM, AnalyzeComplete, AnalyzeErrorEmpty, AnalyzeCompleteN,
      OcrActiveN, ResultSuccessX, ResultSuccessNoData, ResultSuccessY,
      ResultSuccessSavedX, ResultFailureE }

HasJson(text) == \E d \in JsonDocs : d.text = text
JSONparse(text) == (CHOOSE d \in JsonDocs : d.text = text).value

(***************************************************************************)
(* The lines the server side of the model sends: a data line for a JSON    *)
(* document, a data line whose payload is cut short (JSON.parse throws),   *)
(* and a comment line that does not start with the data prefix.  A stream  *)
(* is a number of lines, each followed by a blank line.  The page as a     *)
(* whole is run against PageStreams, a single session against Streams      *)
(* (results, a bad payload, a comment) and against StepStreams (steps).    *)
(***************************************************************************)
DataLine(d) == DataPrefix \o d.text
TruncatedJson == <<"{step:ocr,status:active,">>
BadLine == DataPrefix \o TruncatedJson
CommentLine == <<":", "keep-alive">>

FrameTexts ==
    { DataLine(AnalyzeActiveM), DataLine(ResultSuccessX),
      DataLine(ResultSuccessNoData), DataLine(ResultFailureE),
      BadLine, CommentLine }

StepFrameTexts ==
    { DataLine(AnalyzeActiveM), DataLine(AnalyzeComplete),
      DataLine(AnalyzeErrorEmpty), DataLine(AnalyzeCompleteN),
      DataLine(OcrActiveN) }

PageFrameTexts ==
    { DataLine(AnalyzeActiveM), DataLine(ResultSuccessX),
      DataLine(ResultFailureE) }

UiFrameTexts == { DataLine(ResultSuccessX), DataLine(ResultFailureE) }

RECURSIVE Concat(_)
Concat(ss) == IF ss = <<>> THEN <<>> ELSE Head(ss) \o Concat(Tail(ss))

StreamsOf(frames, max) ==
    UNION { { Concat([i \in 1..n |-> fs[i] \o <<NL, NL>>]) :
                fs \in [1..n -> frames] } : n \in 0..max }

Streams == StreamsOf(FrameTexts, MaxFrames)
StepStreams == StreamsOf(StepFrameTexts, MaxFrames)
PageStreams == StreamsOf(PageFrameTexts, MaxPageFrames)
UiStreams == StreamsOf(UiFrameTexts, MaxUiFrames)

Files == {[name |-> "invoice.png"]}
Sessions == 1..MaxSessions

(***************************************************************************)
(* State.  The React state of UploadPage (file .. editedData); for each    *)
(* call of handleUpload its position (pc), the text the server has still   *)
(* to deliver (wire) and the local decode buffer.  History: the text       *)
(* decoded so far (received) and the lines the for loop has taken          *)
(* (handled) of each call; evLog, the events applied to result and steps   *)
(* since they were last cleared; discarded, what the clearing setters of   *)
(* a handleUpload call that still awaits its response overwrote.           *)
(***************************************************************************)
VARIABLES file, isLoading, result, steps, processingComplete,
          showProcessingModal, editedData,
          nsess, pc, wire, buffer,
          received, handled, evLog, discarded,
          heap, showResultsModal, showEditModal, savePc, saveCall, nedits

(***************************************************************************)
(* The React state of InvoicesPage (isLoadingOrders is its isLoading), and *)
(* the requests of fetchOrders, fetchStats and fetchOrderDetails: each     *)
(* order-list request in flight (status "pending") with the page its URL   *)
(* names, and the one issued last also after it has settled, with its      *)
(* outcome; the number of stats requests in flight; each details request   *)
(* issued so far with its order id and its status.  nOrdersRequests and    *)
(* nDetailsRequests count the requests issued so far.                      *)
(***************************************************************************)
VARIABLES orders, pagination, page, isLoadingOrders, stats,
          expandedOrder, orderDetails, loadingDetails,
          ordersRequests, statsRequests, detailsRequests,
          nOrdersRequests, nDetailsRequests

invoicesVars == <<orders, pagination, page, isLoadingOrders, stats,
                  expandedOrder, orderDetails, loadingDetails,
                  ordersRequests, statsRequests, detailsRequests,
                  nOrdersRequests, nDetailsRequests>>
uiVars == <<file, isLoading, result, steps, processingComplete,
            showProcessingModal, editedData, heap>>
sessVars == <<nsess, pc, wire, buffer, received, handled>>
saveVars == <<showResultsModal, showEditModal, savePc, saveCall, nedits>>
vars == <<file, isLoading, result, steps, processingComplete,
          showProcessingModal, editedData,
          nsess, pc, wire, buffer, received, handled, evLog, discarded,
          heap, showResultsModal, showEditModal, savePc, saveCall, nedits,
          orders, pagination, page, isLoadingOrders, stats,
          expandedOrder, orderDetails, loadingDetails,
          ordersRequests, statsRequests, detailsRequests,
          nOrdersRequests, nDetailsRequests>>

NothingDiscarded == [none |-> TRUE]
NoObjects == [none |-> TRUE]
NoCall == [none |-> TRUE]

(***************************************************************************)
(* An exception thrown while React renders (here: by the updater that      *)
(* handleSaveEdits passes to setResult) unmounts the page: no control of   *)
(* it can be used any more.                                                *)
(***************************************************************************)
Mounted == savePc # "crashed"

NetworkError ==
    [success |-> FALSE,
     error |-> [code |-> "ERR_NETWORK", message |-> "Failed to connect to server"]]
CatchEvent == Event("catch", FALSE, UndefData, UndefError, UNDEF, UNDEF, UNDEF)

(***************************************************************************)
(* InvoicesPage as its useState calls construct it; no request has been    *)
(* issued.  An order id is a positive number, NoOrder stands for null.     *)
(***************************************************************************)
NoOrder == 0
NoPagination == [undefined |-> TRUE]
NoDetails == [o \in {} |-> <<>>]

InvoicesConstructed ==
    /\ orders = <<>>
    /\ pagination = NoPagination
    /\ page = 1
    /\ isLoadingOrders = TRUE
    /\ stats = NULL
    /\ expandedOrder = NoOrder
    /\ orderDetails = NoDetails
    /\ loadingDetails = NoOrder
    /\ ordersRequests = {}
    /\ statsRequests = 0
    /\ detailsRequests = {}
    /\ nOrdersRequests = 0
    /\ nDetailsRequests = 0

Init ==
    /\ InvoicesConstructed
    /\ file = NULL
    /\ isLoading = FALSE
    /\ result = NULL
    /\ steps = <<>>
    /\ processingComplete = FALSE
    /\ showProcessingModal = FALSE
    /\ editedData = NULL
    /\ nsess = 0
    /\ pc = [s \in Sessions |-> "unused"]
    /\ wire = [s \in Sessions |-> <<>>]
    /\ buffer = [s \in Sessions |-> <<>>]
    /\ received = [s \in Sessions |-> <<>>]
    /\ handled = [s \in Sessions |-> <<>>]
    /\ evLog = <<>>
    /\ discarded = NothingDiscarded
    /\ heap = NoObjects
    /\ showResultsModal = FALSE
    /\ showEditModal = FALSE
    /\ savePc = "idle"
    /\ saveCall = NoCall
    /\ nedits = 0

(***************************************************************************)
(* updateStep: the reducer passed to setSteps.                             *)
(***************************************************************************)
Labels(stepId) ==
    CASE stepId = "validate" -> "Validating file"
      [] stepId = "upload" -> "Reading image"
      [] stepId = "analyze" -> "Analyzing with AI"
      [] stepId = "extract" -> "Validating data"
      [] stepId = "save" -> "Saving to database"
      [] OTHER -> stepId

UpdateStepAppendAlways(prev, stepId, status, message) ==
    Append(prev, [id |-> stepId, label |-> Labels(stepId),
                  status |-> status, message |-> message])

UpdateStepReplaceMessage(prev, stepId, status, message) ==
    IF \E i \in DOMAIN prev : prev[i].id = stepId
    THEN [i \in DOMAIN prev |->
            IF prev[i].id = stepId
            THEN [prev[i] EXCEPT !.status = status, !.message = message]
            ELSE prev[i]]
    ELSE Append(prev, [id |-> stepId, label |-> Labels(stepId),
                       status |-> status, message |-> message])

UpdateStep(prev, stepId, status, message) ==
    IF \E i \in DOMAIN prev : prev[i].id = stepId
    THEN [i \in DOMAIN prev |->
            IF prev[i].id = stepId
            THEN [prev[i] EXCEPT
                    !.status = status,
                    !.message = IF Truthy(message) THEN message
                                ELSE prev[i].message]
            ELSE prev[i]]
    ELSE Append(prev, [id |-> stepId, label |-> Labels(stepId),
                       status |-> status, message |-> message])

(***************************************************************************)
(* Objects.  JSON.parse(JSON.stringify(x)) makes new objects with the      *)
(* contents of x: a top-level object and, under it, the header object,     *)
(* the line_items array with its item objects, and the totals object.      *)
(* heap holds the nested objects of the last such copy (those of an        *)
(* earlier copy are unreachable by then: setResult and setEditedData have  *)
(* both overwritten what referred to them).  A top-level object is a       *)
(* record of references to them; the invoice of a parsed event, which      *)
(* nothing mutates, is a value.  Contents is what reading through an       *)
(* object gives in a heap.                                                 *)
(***************************************************************************)
DeepCopy(x) == x

Ref(name) == [ref |-> name]
TopObject ==
    [header |-> Ref("header"), line_items |-> Ref("line_items"),
     totals |-> Ref("totals")]
IsTopObject(x) == "ref" \in DOMAIN x.header

Contents(x, h) ==
    IF x = NULL THEN NULL
    ELSE IF IsTopObject(x)
         THEN [header |-> h[x.header.ref], line_items |-> h[x.line_items.ref],
               totals |-> h[x.totals.ref]]
         ELSE x

(***************************************************************************)
(* The body of the for loop of handleUpload, for one line.  st holds the   *)
(* state the body writes.  An exception thrown inside the inner try        *)
(* (JSON.parse of a bad payload; data.data.extraction of a result without  *)
(* data) ends the body for this line and nothing else.                     *)
(***************************************************************************)
HandleResultAlwaysComplete(st, data) ==
    IF data.success
    THEN IF data.data = UndefData
         THEN [st EXCEPT !.result = [success |-> TRUE, data |-> data.data],
                         !.evLog = Append(@, data)]
         ELSE [st EXCEPT !.result = [success |-> TRUE, data |-> data.data],
                         !.heap = DeepCopy(data.data.extraction.data),
                         !.editedData = TopObject,
                         !.processingComplete = TRUE,
                         !.evLog = Append(@, data)]
    ELSE [st EXCEPT !.result = [success |-> FALSE, error |-> data.error],
                    !.processingComplete = TRUE,
                    !.evLog = Append(@, data)]

HandleResult(st, data) ==
    IF data.success
    THEN IF data.data = UndefData
         THEN [st EXCEPT !.result = [success |-> TRUE, data |-> data.data],
                         !.evLog = Append(@, data)]
         ELSE [st EXCEPT !.result = [success |-> TRUE, data |-> data.data],
                         !.heap = DeepCopy(data.data.extraction.data),
                         !.editedData = TopObject,
                         !.processingComplete = TRUE,
                         !.evLog = Append(@, data)]
    ELSE [st EXCEPT !.result = [success |-> FALSE, error |-> data.error],
                    !.evLog = Append(@, data)]

HandleLineAbortOnBadJson(st, line) ==
    IF ~StartsWith(line, DataPrefix) THEN st
    ELSE LET text == Slice(line, Len(DataPrefix)) IN
         IF ~HasJson(text) THEN [st EXCEPT !.result = NetworkError]
         ELSE LET data == JSONparse(text) IN
              IF data.type = "result" THEN HandleResult(st, data)
              ELSE IF Truthy(data.step)
                   THEN [st EXCEPT
                           !.steps = UpdateStep(@, data.step, data.status,
                                                data.message),
                           !.evLog = Append(@, data)]
                   ELSE st

HandleLine(st, line) ==
    IF ~StartsWith(line, DataPrefix) THEN st
    ELSE LET text == Slice(line, Len(DataPrefix)) IN
         IF ~HasJson(text) THEN st
         ELSE LET data == JSONparse(text) IN
              IF data.type = "result" THEN HandleResult(st, data)
              ELSE IF Truthy(data.step)
                   THEN [st EXCEPT
                           !.steps = UpdateStep(@, data.step, data.status,
                                                data.message),
                           !.evLog = Append(@, data)]
                   ELSE st

RECURSIVE HandleLines(_, _)
HandleLines(st, lines) ==
    IF lines = <<>> THEN st
    ELSE HandleLines(HandleLine(st, Head(lines)), Tail(lines))

PageState ==
    [steps |-> steps, result |-> result, editedData |-> editedData,
     heap |-> heap, processingComplete |-> processingComplete,
     evLog |-> evLog]

(***************************************************************************)
(* The handlers that select or remove the file.  The file input is opened  *)
(* only from the empty drop zone; a drop is taken at any time; the Remove  *)
(* button shows with the preview, that is, with a file.                    *)
(***************************************************************************)
ClearSession ==
    /\ result' = NULL
    /\ steps' = <<>>
    /\ processingComplete' = FALSE
    /\ evLog' = <<>>

HandleDrop ==
    /\ Mounted
    /\ \E droppedFile \in Files : file' = droppedFile
    /\ ClearSession
    /\ UNCHANGED <<isLoading, showProcessingModal, editedData, heap, saveVars, sessVars, discarded>>
    /\ UNCHANGED invoicesVars

HandleFileSelect ==
    /\ Mounted
    /\ file = NULL
    /\ \E selectedFile \in Files : file' = selectedFile
    /\ ClearSession
    /\ UNCHANGED <<isLoading, showProcessingModal, editedData, heap, saveVars, sessVars, discarded>>
    /\ UNCHANGED invoicesVars

ResetForm ==
    /\ Mounted
    /\ file # NULL
    /\ file' = NULL
    /\ ClearSession
    /\ UNCHANGED <<isLoading, showProcessingModal, editedData, heap, saveVars, sessVars, discarded>>
    /\ UNCHANGED invoicesVars

CloseProcessingModal ==
    /\ Mounted
    /\ showProcessingModal
    /\ showProcessingModal' = FALSE
    /\ UNCHANGED <<file, isLoading, result, steps, processingComplete,
                   editedData, heap, saveVars, sessVars, evLog, discarded>>
    /\ UNCHANGED invoicesVars

(***************************************************************************)
(* handleUpload, up to its first await: the Extract button is disabled     *)
(* without a file and while isLoading.                                     *)
(***************************************************************************)
HandleUploadKeepsSteps ==
    /\ Mounted
    /\ file # NULL
    /\ ~isLoading
    /\ nsess < MaxSessions
    /\ nsess' = nsess + 1
    /\ isLoading' = TRUE
    /\ result' = NULL
    /\ processingComplete' = FALSE
    /\ showProcessingModal' = TRUE
    /\ pc' = [pc EXCEPT ![nsess + 1] = "fetch"]
    /\ discarded' = [steps |-> steps, result |-> result,
                     processingComplete |-> processingComplete]
    /\ UNCHANGED <<file, editedData, heap, saveVars, wire, buffer, received, handled,
                   steps, evLog>>
    /\ UNCHANGED invoicesVars

HandleUploadWhileLoading ==
    /\ Mounted
    /\ file # NULL
    /\ nsess < MaxSessions
    /\ nsess' = nsess + 1
    /\ isLoading' = TRUE
    /\ ClearSession
    /\ showProcessingModal' = TRUE
    /\ pc' = [pc EXCEPT ![nsess + 1] = "fetch"]
    /\ discarded' = [steps |-> steps, result |-> result,
                     processingComplete |-> processingComplete]
    /\ UNCHANGED <<file, editedData, heap, saveVars, wire, buffer, received, handled>>
    /\ UNCHANGED invoicesVars

HandleUpload ==
    /\ Mounted
    /\ file # NULL
    /\ ~isLoading
    /\ nsess < MaxSessions
    /\ nsess' = nsess + 1
    /\ isLoading' = TRUE
    /\ ClearSession
    /\ showProcessingModal' = TRUE
    /\ pc' = [pc EXCEPT ![nsess + 1] = "fetch"]
    /\ discarded' = [steps |-> steps, result |-> result,
                     processingComplete |-> processingComplete]
    /\ UNCHANGED <<file, editedData, heap, saveVars, wire, buffer, received, handled>>
    /\ UNCHANGED invoicesVars

(***************************************************************************)
(* The catch and finally blocks of handleUpload, and the end of the call.  *)
(***************************************************************************)
Finish(s, how) ==
    /\ isLoading' = FALSE
    /\ pc' = [pc EXCEPT ![s] = how]
    /\ wire' = [wire EXCEPT ![s] = <<>>]
    /\ buffer' = [buffer EXCEPT ![s] = <<>>]
    /\ received' = [received EXCEPT ![s] = <<>>]
    /\ handled' = [handled EXCEPT ![s] = <<>>]
    /\ discarded' = IF buffer[s] = <<>> THEN NothingDiscarded
                    ELSE [buffer |-> buffer[s]]
    /\ UNCHANGED <<file, showProcessingModal, nsess>>
    /\ UNCHANGED invoicesVars

CatchWithoutResult(s) ==
    /\ Finish(s, "failed")
    /\ UNCHANGED <<result, evLog, steps, processingComplete, editedData, heap, saveVars>>

Catch(s) ==
    /\ result' = NetworkError
    /\ evLog' = Append(evLog, CatchEvent)
    /\ Finish(s, "failed")
    /\ UNCHANGED <<steps, processingComplete, editedData, heap, saveVars>>

FetchReject(s) ==
    /\ pc[s] = "fetch"
    /\ Catch(s)

FetchNoBody(s) ==
    /\ pc[s] = "fetch"
    /\ Catch(s)

FetchResolve(s, streams) ==
    /\ pc[s] = "fetch"
    /\ \E text \in streams : wire' = [wire EXCEPT ![s] = text]
    /\ pc' = [pc EXCEPT ![s] = "read"]
    /\ discarded' = NothingDiscarded
    /\ UNCHANGED <<uiVars, saveVars, nsess, buffer, received, handled, evLog>>
    /\ UNCHANGED invoicesVars

(***************************************************************************)
(* buffer += decoder.decode(value); buffer.split("\n\n"): the pieces of    *)
(* the buffer with the new chunk appended.                                 *)
(***************************************************************************)
DecodeNoResidual(buf, value) == Split(value)

Decode(buf, value) == Split(buf \o value)

(***************************************************************************)
(* One turn of the read loop: reader.read() resolves with a chunk, the     *)
(* chunk is appended to the buffer, the buffer is split, its last piece    *)
(* is kept and the others go through the for loop.                         *)
(***************************************************************************)
ReadChunk(s) ==
    /\ pc[s] = "read"
    /\ \E n \in 1..Len(wire[s]) :
         LET value == SubSeq(wire[s], 1, n)
             lines == Decode(buffer[s], value)
             st == HandleLines(PageState, Front(lines))
         IN /\ wire' = [wire EXCEPT ![s] = SubSeq(wire[s], n + 1, Len(wire[s]))]
            /\ buffer' = [buffer EXCEPT ![s] = Last(lines)]
            /\ received' = [received EXCEPT ![s] = @ \o value]
            /\ handled' = [handled EXCEPT ![s] = @ \o Front(lines)]
            /\ steps' = st.steps
            /\ result' = st.result
            /\ editedData' = st.editedData
            /\ heap' = st.heap
            /\ processingComplete' = st.processingComplete
            /\ evLog' = st.evLog
    /\ UNCHANGED <<file, isLoading, showProcessingModal, nsess, pc, discarded,
                   saveVars>>
    /\ UNCHANGED invoicesVars

(***************************************************************************)
(* reader.read() resolves with done: the server has closed the stream      *)
(* (text it had still to deliver never arrives).  The loop breaks and the  *)
(* finally block runs.                                                     *)
(***************************************************************************)
ReadDoneFlushesBuffer(s) ==
    /\ pc[s] = "read"
    /\ LET st == HandleLine(PageState, buffer[s])
       IN /\ steps' = st.steps
          /\ result' = st.result
          /\ editedData' = st.editedData
          /\ heap' = st.heap
          /\ processingComplete' = st.processingComplete
          /\ evLog' = st.evLog
    /\ Finish(s, "returned")
    /\ UNCHANGED saveVars

ReadDone(s) ==
    /\ pc[s] = "read"
    /\ Finish(s, "returned")
    /\ UNCHANGED <<result, steps, processingComplete, editedData, heap, saveVars, evLog>>

ReadReject(s) ==
    /\ pc[s] = "read"
    /\ Catch(s)

Next ==
    \/ HandleDrop
    \/ HandleFileSelect
    \/ ResetForm
    \/ CloseProcessingModal
    \/ HandleUpload
    \/ \E s \in Sessions : FetchReject(s)
    \/ \E s \in Sessions : FetchNoBody(s)
    \/ \E s \in Sessions : FetchResolve(s, PageStreams)
    \/ \E s \in Sessions : ReadChunk(s)
    \/ \E s \in Sessions : ReadDone(s)
    \/ \E s \in Sessions : ReadReject(s)

Spec == Init /\ [][Next]_vars

(***************************************************************************)
(* One upload session on its own: the page right after handleUpload has    *)
(* started for a selected file, and the steps of that call only, with      *)
(* every stream of Streams as the response.                                *)
(***************************************************************************)
InitStream ==
    /\ InvoicesConstructed
    /\ file \in Files
    /\ isLoading = TRUE
    /\ result = NULL
    /\ steps = <<>>
    /\ processingComplete = FALSE
    /\ showProcessingModal = TRUE
    /\ editedData = NULL
    /\ nsess = 1
    /\ pc = [s \in Sessions |-> IF s = 1 THEN "fetch" ELSE "unused"]
    /\ wire = [s \in Sessions |-> <<>>]
    /\ buffer = [s \in Sessions |-> <<>>]
    /\ received = [s \in Sessions |-> <<>>]
    /\ handled = [s \in Sessions |-> <<>>]
    /\ evLog = <<>>
    /\ discarded = [steps |-> <<>>, result |-> NULL, processingComplete |-> FALSE]
    /\ heap = NoObjects
    /\ showResultsModal = FALSE
    /\ showEditModal = FALSE
    /\ savePc = "idle"
    /\ saveCall = NoCall
    /\ nedits = 0

NextStream ==
    \/ \E s \in Sessions : FetchReject(s)
    \/ \E s \in Sessions : FetchNoBody(s)
    \/ \E s \in Sessions : FetchResolve(s, Streams)
    \/ \E s \in Sessions : ReadChunk(s)
    \/ \E s \in Sessions : ReadDone(s)
    \/ \E s \in Sessions : ReadReject(s)

SpecStream == InitStream /\ [][NextStream]_vars

NextSteps ==
    \/ \E s \in Sessions : FetchReject(s)
    \/ \E s \in Sessions : FetchNoBody(s)
    \/ \E s \in Sessions : FetchResolve(s, StepStreams)
    \/ \E s \in Sessions : ReadChunk(s)
    \/ \E s \in Sessions : ReadDone(s)
    \/ \E s \in Sessions : ReadReject(s)

SpecSteps == InitStream /\ [][NextSteps]_vars

(***************************************************************************)
(* The modals.  openViewResults is offered on the page and in the          *)
(* processing modal once processingComplete && result?.success; the        *)
(* results modal offers Edit Data, the edit modal Cancel; each Dialog      *)
(* reports its closing through onOpenChange.                               *)
(***************************************************************************)
HasData(r) == r # NULL /\ "data" \in DOMAIN r /\ r.data # UndefData
Saved(r) == HasData(r) /\ r.data.database.saved

OpenViewResults ==
    /\ Mounted
    /\ processingComplete
    /\ result # NULL
    /\ result.success
    /\ showProcessingModal' = FALSE
    /\ showResultsModal' = TRUE
    /\ UNCHANGED <<file, isLoading, result, steps, processingComplete,
                   editedData, heap, showEditModal, savePc, saveCall, nedits,
                   sessVars, evLog, discarded>>
    /\ UNCHANGED invoicesVars

CloseResultsModal ==
    /\ Mounted
    /\ showResultsModal
    /\ showResultsModal' = FALSE
    /\ UNCHANGED <<uiVars, showEditModal, savePc, saveCall, nedits,
                   sessVars, evLog, discarded>>
    /\ UNCHANGED invoicesVars

EditData ==
    /\ Mounted
    /\ showResultsModal
    /\ showResultsModal' = FALSE
    /\ showEditModal' = TRUE
    /\ UNCHANGED <<uiVars, savePc, saveCall, nedits, sessVars, evLog, discarded>>
    /\ UNCHANGED invoicesVars

CancelEdit ==
    /\ Mounted
    /\ showEditModal
    /\ showEditModal' = FALSE
    /\ showResultsModal' = TRUE
    /\ UNCHANGED <<uiVars, savePc, saveCall, nedits, sessVars, evLog, discarded>>
    /\ UNCHANGED invoicesVars

CloseEditModal ==
    /\ Mounted
    /\ showEditModal
    /\ showEditModal' = FALSE
    /\ UNCHANGED <<uiVars, showResultsModal, savePc, saveCall, nedits,
                   sessVars, evLog, discarded>>
    /\ UNCHANGED invoicesVars

(***************************************************************************)
(* Numbers of the edit form.  NaN, which is no amount, is held as a        *)
(* negative number that no input, extraction or computation of the model   *)
(* produces otherwise; arithmetic with NaN gives NaN.  parseInt and        *)
(* parseFloat of the text of an input, and x || 0: NaN is falsy, and so    *)
(* is 0.  parseInt stops at the first character that is not a digit.        *)
(***************************************************************************)
NaN == -1

ParseInt(text) ==
    CASE text = "0" -> 0
      [] text = "1" -> 1
      [] text = "12.50" -> 12
      [] OTHER -> NaN

ParseFloat(text) ==
    CASE text = "0" -> Amount(0, 0)
      [] text = "1" -> Amount(1, 0)
      [] text = "12.50" -> Amount(12, 50)
      [] OTHER -> NaN

OrZeroKeepsNaN(x) == x

OrZero(x) == IF x = NaN \/ x = 0 THEN 0 ELSE x

Times(a, b) == IF a = NaN \/ b = NaN THEN NaN ELSE a * b
Plus(a, b) == IF a = NaN \/ b = NaN THEN NaN ELSE a + b
PercentOf(a, rate) == IF a = NaN \/ rate = NaN THEN NaN ELSE (a * rate) \div 100

(***************************************************************************)
(* handleEditField.  keys is field.split('.').  updated is a new           *)
(* top-level object with the properties of editedData, that is, with       *)
(* references to the same nested objects; the loop walks from it to the    *)
(* object that holds the last key and the assignment writes that object.   *)
(* A key of an array is the text of a zero-based index.                    *)
(***************************************************************************)
ShallowCopy(x) == [k \in DOMAIN x |-> x[k]]

Prop(key) == IF ParseInt(key) = NaN THEN key ELSE ParseInt(key) + 1

RECURSIVE Assign(_, _, _)
Assign(obj, keys, value) ==
    IF Len(keys) = 1
    THEN [obj EXCEPT ![Prop(keys[1])] = value]
    ELSE [obj EXCEPT ![Prop(keys[1])] =
                         Assign(obj[Prop(keys[1])], Tail(keys), value)]

Includes(keys, name) == \E k \in DOMAIN keys : keys[k] = name

RECURSIVE SumTotals(_)
SumTotals(items) ==
    IF items = <<>> THEN 0 ELSE Plus(Head(items).total, SumTotals(Tail(items)))

(***************************************************************************)
(* The body of if (field.includes('line_items')): the total of the item    *)
(* at idx, then the three totals, written into the objects in place.       *)
(***************************************************************************)
RecalculateStaleTax(h, idx) ==
    LET item == h.line_items[idx + 1]
        items == [h.line_items EXCEPT
                    ![idx + 1].total = Times(item.quantity, item.unit_price)]
        subtotal == SumTotals(items)
        tax_amount == PercentOf(h.totals.subtotal, h.totals.tax_rate)
    IN [h EXCEPT !.line_items = items,
                 !.totals.subtotal = subtotal,
                 !.totals.tax_amount = tax_amount,
                 !.totals.total = Plus(Plus(subtotal, tax_amount),
                                       h.totals.shipping)]

RecalculateEveryLine(h, idx) ==
    LET items == [k \in DOMAIN h.line_items |->
                    [h.line_items[k] EXCEPT
                       !.total = Times(h.line_items[k].quantity,
                                       h.line_items[k].unit_price)]]
        subtotal == SumTotals(items)
        tax_amount == PercentOf(subtotal, h.totals.tax_rate)
    IN [h EXCEPT !.line_items = items,
                 !.totals.subtotal = subtotal,
                 !.totals.tax_amount = tax_amount,
                 !.totals.total = Plus(Plus(subtotal, tax_amount),
                                       h.totals.shipping)]

RecalculateKeepsLineTotal(h, idx) ==
    LET items == h.line_items
        subtotal == SumTotals(items)
        tax_amount == PercentOf(subtotal, h.totals.tax_rate)
    IN [h EXCEPT !.totals.subtotal = subtotal,
                 !.totals.tax_amount = tax_amount,
                 !.totals.total = Plus(Plus(subtotal, tax_amount),
                                       h.totals.shipping)]

Recalculate(h, idx) ==
    LET item == h.line_items[idx + 1]
        items == [h.line_items EXCEPT
                    ![idx + 1].total = Times(item.quantity, item.unit_price)]
        subtotal == SumTotals(items)
        tax_amount == PercentOf(subtotal, h.totals.tax_rate)
    IN [h EXCEPT !.line_items = items,
                 !.totals.subtotal = subtotal,
                 !.totals.tax_amount = tax_amount,
                 !.totals.total = Plus(Plus(subtotal, tax_amount),
                                       h.totals.shipping)]

(***************************************************************************)
(* The objects after handleEditField(field, value) has run on the          *)
(* snapshot updated, a copy of editedData.                                 *)
(***************************************************************************)
EditedObjectsAlwaysRecalculate(updated, h, keys, value) ==
    LET target == updated[keys[1]].ref
        assigned == [h EXCEPT ![target] = Assign(h[target], Tail(keys), value)]
    IN IF Includes(keys, "line_items")
       THEN Recalculate(assigned, ParseInt(keys[2]))
       ELSE Recalculate(assigned, 0)

EditedObjects(updated, h, keys, value) ==
    LET target == updated[keys[1]].ref
        assigned == [h EXCEPT ![target] = Assign(h[target], Tail(keys), value)]
    IN IF Includes(keys, "line_items")
       THEN Recalculate(assigned, ParseInt(keys[2]))
       ELSE assigned

HandleEditField(keys, value) ==
    /\ Mounted
    /\ showEditModal
    /\ editedData # NULL
    /\ nedits < MaxEdits
    /\ LET updated == ShallowCopy(editedData)
       IN /\ heap' = EditedObjects(updated, heap, keys, value)
          /\ editedData' = updated
    /\ nedits' = nedits + 1
    /\ UNCHANGED <<file, isLoading, result, steps, processingComplete,
                   showProcessingModal, showResultsModal, showEditModal,
                   savePc, saveCall, sessVars, evLog, discarded>>
    /\ UNCHANGED invoicesVars

(***************************************************************************)
(* The inputs of the edit modal: four of the header, four of every line    *)
(* item, each calling handleEditField on change.                           *)
(***************************************************************************)
HeaderFields == {"invoice_number", "date", "customer_id", "company_name"}
InputTexts == {"edited"}
NumberTexts == {"1", "abc"}
ItemTextFields == {"item_number", "description"}
ItemKeys == {"0", "1"}
ItemInputs == {k \in ItemKeys : editedData # NULL /\ ParseInt(k) + 1 \in DOMAIN heap.line_items}

EditHeaderInput(name, text) ==
    HandleEditField(<<"header", name>>, text)

EditItemTextInput(i, name, text) ==
    HandleEditField(<<"line_items", i, name>>, text)

EditQuantityInput(i, text) ==
    HandleEditField(<<"line_items", i, "quantity">>, OrZero(ParseInt(text)))

EditPriceInput(i, text) ==
    HandleEditField(<<"line_items", i, "unit_price">>, OrZero(ParseFloat(text)))

(***************************************************************************)
(* handleSaveEdits.  Save to Database is offered in the results modal      *)
(* unless result?.data?.database.saved, and in the edit modal; both        *)
(* buttons are disabled while isLoading.  The call sends                   *)
(* JSON.stringify({ data: editedData }) and keeps the editedData of its    *)
(* render for the updater of setResult.  The updater reads                 *)
(* prev.data.extraction: with a result that has no data it throws, and     *)
(* React unmounts the page.                                                *)
(***************************************************************************)
OrderId == [id |-> "new order"]

HandleSaveEdits ==
    /\ Mounted
    /\ showEditModal \/ (showResultsModal /\ ~Saved(result))
    /\ ~isLoading
    /\ savePc # "pending"
    /\ editedData # NULL
    /\ isLoading' = TRUE
    /\ savePc' = "pending"
    /\ saveCall' = [body |-> [data |-> Contents(editedData, heap)],
                    editedData |-> editedData]
    /\ UNCHANGED <<file, result, steps, processingComplete,
                   showProcessingModal, editedData, heap, showResultsModal,
                   showEditModal, nedits, sessVars, evLog, discarded>>
    /\ UNCHANGED invoicesVars

SavedResult(prev, edited, order_id) ==
    [prev EXCEPT
       !.data = [prev.data EXCEPT
                   !.extraction = [prev.data.extraction EXCEPT !.data = edited],
                   !.database = [saved |-> TRUE, order_id |-> order_id]]]

SaveSucceed ==
    /\ savePc = "pending"
    /\ IF result = NULL
       THEN /\ result' = NULL
            /\ savePc' = "succeeded"
       ELSE IF HasData(result)
            THEN /\ result' = SavedResult(result, saveCall.editedData, OrderId)
                 /\ savePc' = "succeeded"
            ELSE /\ result' = result
                 /\ savePc' = "crashed"
    /\ showEditModal' = FALSE
    /\ showResultsModal' = TRUE
    /\ isLoading' = FALSE
    /\ saveCall' = NoCall
    /\ UNCHANGED <<file, steps, processingComplete, showProcessingModal,
                   editedData, heap, nedits, sessVars, evLog, discarded>>
    /\ UNCHANGED invoicesVars

SaveRefused ==
    /\ savePc = "pending"
    /\ isLoading' = FALSE
    /\ savePc' = "refused"
    /\ saveCall' = NoCall
    /\ UNCHANGED <<file, result, steps, processingComplete,
                   showProcessingModal, editedData, heap, showResultsModal,
                   showEditModal, nedits, sessVars, evLog, discarded>>
    /\ UNCHANGED invoicesVars

SaveRejectKeepsLoading ==
    /\ savePc = "pending"
    /\ savePc' = "rejected"
    /\ saveCall' = NoCall
    /\ UNCHANGED <<file, isLoading, result, steps, processingComplete,
                   showProcessingModal, editedData, heap, showResultsModal,
                   showEditModal, nedits, sessVars, evLog, discarded>>
    /\ UNCHANGED invoicesVars

SaveReject ==
    /\ savePc = "pending"
    /\ isLoading' = FALSE
    /\ savePc' = "rejected"
    /\ saveCall' = NoCall
    /\ UNCHANGED <<file, result, steps, processingComplete,
                   showProcessingModal, editedData, heap, showResultsModal,
                   showEditModal, nedits, sessVars, evLog, discarded>>
    /\ UNCHANGED invoicesVars

(***************************************************************************)
(* The page with its modals and the save, run against UiStreams.           *)
(***************************************************************************)
NextUi ==
    \/ HandleDrop
    \/ HandleFileSelect
    \/ ResetForm
    \/ CloseProcessingModal
    \/ HandleUpload
    \/ \E s \in Sessions : FetchReject(s)
    \/ \E s \in Sessions : FetchNoBody(s)
    \/ \E s \in Sessions : FetchResolve(s, UiStreams)
    \/ \E s \in Sessions : ReadChunk(s)
    \/ \E s \in Sessions : ReadDone(s)
    \/ \E s \in Sessions : ReadReject(s)
    \/ OpenViewResults
    \/ CloseResultsModal
    \/ EditData
    \/ CancelEdit
    \/ CloseEditModal
    \/ HandleSaveEdits
    \/ SaveSucceed
    \/ SaveRefused
    \/ SaveReject

SpecUi == Init /\ [][NextUi]_vars

(***************************************************************************)
(* The review of one extraction: the page after a handleUpload call has    *)
(* taken a successful result and returned, and from there the modals, the  *)
(* edit form and the save.                                                 *)
(***************************************************************************)
ReviewDocs == { ResultSuccessX, ResultSuccessY, ResultSuccessSavedX }

InitEdit ==
    /\ InvoicesConstructed
    /\ file \in Files
    /\ isLoading = FALSE
    /\ \E d \in ReviewDocs :
         /\ result = [success |-> TRUE, data |-> d.value.data]
         /\ heap = DeepCopy(d.value.data.extraction.data)
         /\ evLog = <<d.value>>
    /\ editedData = TopObject
    /\ steps = <<>>
    /\ processingComplete = TRUE
    /\ showProcessingModal = TRUE
    /\ nsess = 1
    /\ pc = [s \in Sessions |-> IF s = 1 THEN "returned" ELSE "unused"]
    /\ wire = [s \in Sessions |-> <<>>]
    /\ buffer = [s \in Sessions |-> <<>>]
    /\ received = [s \in Sessions |-> <<>>]
    /\ handled = [s \in Sessions |-> <<>>]
    /\ discarded = NothingDiscarded
    /\ showResultsModal = FALSE
    /\ showEditModal = FALSE
    /\ savePc = "idle"
    /\ saveCall = NoCall
    /\ nedits = 0

NextEdit ==
    \/ CloseProcessingModal
    \/ OpenViewResults
    \/ CloseResultsModal
    \/ EditData
    \/ CancelEdit
    \/ CloseEditModal
    \/ \E name \in HeaderFields, text \in InputTexts :
          EditHeaderInput(name, text)
    \/ \E i \in ItemInputs, name \in ItemTextFields, text \in InputTexts :
          EditItemTextInput(i, name, text)
    \/ \E i \in ItemInputs, text \in NumberTexts : EditQuantityInput(i, text)
    \/ \E i \in ItemInputs, text \in NumberTexts : EditPriceInput(i, text)
    \/ HandleSaveEdits
    \/ SaveSucceed
    \/ SaveRefused
    \/ SaveReject

SpecEdit == InitEdit /\ [][NextEdit]_vars

(***************************************************************************)
(* The invoices page.  The server is the database behind the three         *)
(* endpoints the page reads: TotalPages pages of one order each (as many   *)
(* pages as the requests the page may issue can reach), one line item per  *)
(* order.  A request settles in one of three ways: with a                  *)
(* successful body, with a body whose success is false, or by rejecting    *)
(* (network failure, or a body that is not JSON).                          *)
(***************************************************************************)
uploadVars == <<uiVars, sessVars, saveVars, evLog, discarded>>

TotalPages == MaxOrdersRequests
Order(id) == [SalesOrderID |-> id]
ItemsOf(p) == << Order(p) >>
MetaOf(p) ==
    [pagination |-> [page |-> p, total_pages |-> TotalPages,
                     has_next |-> p < TotalPages, has_prev |-> p > 1]]
OrdersResponse(p) ==
    [success |-> TRUE, data |-> [items |-> ItemsOf(p)], meta |-> MetaOf(p)]
OrderIds == 1 .. TotalPages
DetailsOf(orderId) ==
    << [SalesOrderDetailID |-> orderId, SalesOrderID |-> orderId] >>
DatabaseStats == [orders |-> TotalPages, order_details |-> TotalPages]

Max(a, b) == IF a >= b THEN a ELSE b
HasDetails(orderId) == orderId \in DOMAIN orderDetails
Shown == { orders[i].SalesOrderID : i \in DOMAIN orders }

(* fetchOrders() and fetchStats() up to their first await, for page p.     *)
FetchOrders(p) ==
    /\ nOrdersRequests < MaxOrdersRequests
    /\ isLoadingOrders' = TRUE
    /\ nOrdersRequests' = nOrdersRequests + 1
    /\ ordersRequests' =
          {r \in ordersRequests : r.status = "pending"}
             \cup {[id |-> nOrdersRequests + 1, page |-> p,
                    status |-> "pending"]}
FetchStats ==
    statsRequests' = statsRequests + 1

(* The effect of [page]: runs after the first render and after every       *)
(* render in which page has changed.                                       *)
PageEffect(p) ==
    /\ FetchOrders(p)
    /\ FetchStats

MountInvoices ==
    /\ nOrdersRequests = 0
    /\ PageEffect(page)
    /\ UNCHANGED <<orders, pagination, page, stats, expandedOrder,
                   orderDetails, loadingDetails, detailsRequests,
                   nDetailsRequests>>
    /\ UNCHANGED uploadVars

SetPage(p) ==
    /\ page' = p
    /\ IF p = page
       THEN UNCHANGED <<isLoadingOrders, nOrdersRequests, ordersRequests,
                        statsRequests>>
       ELSE PageEffect(p)
    /\ UNCHANGED <<orders, pagination, stats, expandedOrder,
                   orderDetails, loadingDetails, detailsRequests,
                   nDetailsRequests>>
    /\ UNCHANGED uploadVars

PreviousPage == Max(1, page - 1)

ClickPrevious ==
    /\ nOrdersRequests > 0
    /\ pagination # NoPagination
    /\ pagination.pagination.has_prev
    /\ SetPage(PreviousPage)

ClickNext ==
    /\ nOrdersRequests > 0
    /\ pagination # NoPagination
    /\ pagination.pagination.has_next
    /\ SetPage(page + 1)

OrdersSettled(r, how) ==
    /\ r \in ordersRequests
    /\ r.status = "pending"
    /\ ordersRequests' =
          (ordersRequests \ {r})
             \cup (IF r.id = nOrdersRequests
                   THEN {[r EXCEPT !.status = how]} ELSE {})
    /\ isLoadingOrders' = FALSE
    /\ UNCHANGED <<page, stats, expandedOrder, orderDetails, loadingDetails,
                   statsRequests, detailsRequests, nOrdersRequests,
                   nDetailsRequests>>
    /\ UNCHANGED uploadVars

OrdersSucceed(r) ==
    /\ OrdersSettled(r, "succeeded")
    /\ orders' = OrdersResponse(r.page).data.items
    /\ pagination' = OrdersResponse(r.page).meta

OrdersUnsuccessful(r) ==
    /\ OrdersSettled(r, "unsuccessful")
    /\ UNCHANGED <<orders, pagination>>

OrdersReject(r) ==
    /\ OrdersSettled(r, "rejected")
    /\ UNCHANGED <<orders, pagination>>

StatsSettled ==
    /\ statsRequests > 0
    /\ statsRequests' = statsRequests - 1
    /\ UNCHANGED <<orders, pagination, page, isLoadingOrders,
                   expandedOrder, orderDetails, loadingDetails,
                   ordersRequests, detailsRequests, nOrdersRequests,
                   nDetailsRequests>>
    /\ UNCHANGED uploadVars

StatsSucceed ==
    /\ StatsSettled
    /\ stats' = DatabaseStats

StatsFail ==
    /\ StatsSettled
    /\ UNCHANGED stats

(* fetchOrderDetails(orderId), called by a click on the row of an order    *)
(* that the table shows, up to its return or its first await.              *)
FetchOrderDetails(orderId) ==
    /\ nOrdersRequests > 0
    /\ ~isLoadingOrders
    /\ orderId \in Shown
    /\ IF HasDetails(orderId)
       THEN /\ expandedOrder' =
                  IF expandedOrder = orderId THEN NoOrder ELSE orderId
            /\ UNCHANGED <<loadingDetails, detailsRequests, nDetailsRequests>>
       ELSE /\ nDetailsRequests < MaxDetailsRequests
            /\ loadingDetails' = orderId
            /\ nDetailsRequests' = nDetailsRequests + 1
            /\ detailsRequests' =
                  detailsRequests
                     \cup {[id |-> nDetailsRequests + 1, orderId |-> orderId,
                            status |-> "pending"]}
            /\ UNCHANGED expandedOrder
    /\ UNCHANGED <<orders, pagination, page, isLoadingOrders, stats,
                   orderDetails, ordersRequests, statsRequests,
                   nOrdersRequests>>
    /\ UNCHANGED uploadVars

DetailsSettled(r, how) ==
    /\ r \in detailsRequests
    /\ r.status = "pending"
    /\ detailsRequests' =
          (detailsRequests \ {r}) \cup {[r EXCEPT !.status = how]}
    /\ loadingDetails' = NoOrder
    /\ UNCHANGED <<orders, pagination, page, isLoadingOrders, stats,
                   ordersRequests, statsRequests, nOrdersRequests,
                   nDetailsRequests>>
    /\ UNCHANGED uploadVars

DetailsSucceed(r) ==
    /\ DetailsSettled(r, "succeeded")
    /\ orderDetails' = (r.orderId :> DetailsOf(r.orderId)) @@ orderDetails
    /\ expandedOrder' = r.orderId

DetailsUnsuccessfulExpands(r) ==
    /\ DetailsSettled(r, "unsuccessful")
    /\ expandedOrder' = r.orderId
    /\ UNCHANGED orderDetails

DetailsUnsuccessful(r) ==
    /\ DetailsSettled(r, "unsuccessful")
    /\ UNCHANGED <<orderDetails, expandedOrder>>

DetailsReject(r) ==
    /\ DetailsSettled(r, "rejected")
    /\ UNCHANGED <<orderDetails, expandedOrder>>

NextInvoices ==
    \/ MountInvoices
    \/ ClickPrevious
    \/ ClickNext
    \/ \E r \in ordersRequests : OrdersSucceed(r)
    \/ \E r \in ordersRequests : OrdersUnsuccessful(r)
    \/ \E r \in ordersRequests : OrdersReject(r)
    \/ StatsSucceed
    \/ StatsFail
    \/ \E orderId \in OrderIds : FetchOrderDetails(orderId)
    \/ \E r \in detailsRequests : DetailsSucceed(r)
    \/ \E r \in detailsRequests : DetailsUnsuccessful(r)
    \/ \E r \in detailsRequests : DetailsReject(r)

SpecInvoices == Init /\ [][NextInvoices]_vars

(***************************************************************************)
(* What the event log says.                                                *)
(***************************************************************************)
IsResult(e) == e.type = "result"
IsStep(e) == Truthy(e.step)
ResultLog == SelectSeq(evLog, IsResult)
StepLog == SelectSeq(evLog, IsStep)

Reading == \E s \in Sessions : pc[s] = "read"

Exposed(e) ==
    IF e.success THEN [success |-> TRUE, data |-> e.data]
    ELSE [success |-> FALSE, error |-> e.error]
Completes(e) == e.success /\ e.data # UndefData

InitialPageState ==
    [steps |-> <<>>, result |-> NULL, editedData |-> NULL,
     heap |-> NoObjects, processingComplete |-> FALSE, evLog |-> <<>>]

RECURSIVE StepsOf(_)
StepsOf(log) ==
    IF log = <<>> THEN <<>>
    ELSE LET e == Last(log)
         IN UpdateStep(StepsOf(Front(log)), e.step, e.status, e.message)

\* The events of log that precede its first result event.
RECURSIVE BeforeFirstResult(_)
BeforeFirstResult(log) ==
    IF log = <<>> \/ IsResult(Head(log)) THEN <<>>
    ELSE <<Head(log)>> \o BeforeFirstResult(Tail(log))

FirstIndex(stepId) ==
    CHOOSE k \in DOMAIN StepLog :
        /\ StepLog[k].step = stepId
        /\ \A m \in 1..(k - 1) : StepLog[m].step # stepId
LastIndex(stepId) ==
    CHOOSE k \in DOMAIN StepLog :
        /\ StepLog[k].step = stepId
        /\ \A m \in (k + 1)..Len(StepLog) : StepLog[m].step # stepId
HasMessage(stepId) ==
    \E k \in DOMAIN StepLog :
        StepLog[k].step = stepId /\ Truthy(StepLog[k].message)
LastMessageIndex(stepId) ==
    CHOOSE k \in DOMAIN StepLog :
        /\ StepLog[k].step = stepId /\ Truthy(StepLog[k].message)
        /\ \A m \in (k + 1)..Len(StepLog) :
             ~(StepLog[m].step = stepId /\ Truthy(StepLog[m].message))

(***************************************************************************)
(* C1: while the read loop of a session runs, once a result event has      *)
(* been processed, result, processingComplete and editedData are the       *)
(* values the first result event set, whatever result events followed.     *)
(***************************************************************************)
C1_OneResultHonored ==
    (Reading /\ ResultLog # <<>>) =>
        LET first == Head(ResultLog)
        IN /\ result = Exposed(first)
           /\ processingComplete = Completes(first)
           /\ Contents(editedData, heap)
                = IF Completes(first)
                  THEN first.data.extraction.data ELSE NULL

(***************************************************************************)
(* C2: while the read loop of a session runs, the step list is the one     *)
(* built from the step events that came before the first result event:    *)
(* a step event after the result leaves the list unchanged.                *)
(***************************************************************************)
C2_NoStepAfterResult ==
    Reading => steps = StepsOf(BeforeFirstResult(evLog))

(***************************************************************************)
(* C3: the step list holds exactly one entry for each step id passed to    *)
(* updateStep since the list was last emptied, and the entries are in the  *)
(* order in which the ids were first seen.                                 *)
(***************************************************************************)
C3_StepsFirstSeenOrder ==
    /\ \A i, j \in DOMAIN steps : steps[i].id = steps[j].id => i = j
    /\ { steps[i].id : i \in DOMAIN steps }
         = { StepLog[k].step : k \in DOMAIN StepLog }
    /\ \A i, j \in DOMAIN steps :
         i < j => FirstIndex(steps[i].id) < FirstIndex(steps[j].id)

C3_Witness ==
    /\ Len(StepLog) = 3
    /\ StepLog[1].step = "analyze"
    /\ StepLog[2].step = "ocr"
    /\ StepLog[3].step = "analyze"
    /\ Len(steps) = 2
    /\ steps[1].id = "analyze"
    /\ steps[2].id = "ocr"
    /\ steps[1].status = StepLog[3].status

(***************************************************************************)
(* C4 as stated: every entry of the step list carries the status and the   *)
(* message of the most recent event for its id.                            *)
(***************************************************************************)
C4_MostRecentStatusAndMessage ==
    \A i \in DOMAIN steps :
        LET e == StepLog[LastIndex(steps[i].id)]
        IN steps[i].status = e.status /\ steps[i].message = e.message

(***************************************************************************)
(* C4 as amended: every entry of the step list carries the status of the   *)
(* most recent event for its id and the message of the most recent event   *)
(* for its id that had a non-empty message; when no event for the id had   *)
(* one, the entry keeps the message of the first event for the id.         *)
(***************************************************************************)
C4_MostRecentStatusStickyMessage ==
    \A i \in DOMAIN steps :
        LET id == steps[i].id
        IN /\ steps[i].status = StepLog[LastIndex(id)].status
           /\ steps[i].message =
                IF HasMessage(id) THEN StepLog[LastMessageIndex(id)].message
                ELSE StepLog[FirstIndex(id)].message

C4_Witness ==
    /\ Len(StepLog) = 3
    /\ \A k \in 1..3 : StepLog[k].step = "analyze"
    /\ StepLog[1].message = "m"
    /\ StepLog[2].message = "n"
    /\ ~Truthy(StepLog[3].message)
    /\ Len(steps) = 1
    /\ steps[1].message = "n"
    /\ steps[1].status = StepLog[3].status

(***************************************************************************)
(* C5: however the text received so far was cut into chunks, the lines     *)
(* the read loop has handled, the residual buffer and the page state are   *)
(* those of splitting and handling that text in one piece.                 *)
(***************************************************************************)
C5_ChunkingEquivalence ==
    \A s \in Sessions :
        pc[s] = "read" =>
            LET whole == Split(received[s])
            IN /\ handled[s] = Front(whole)
               /\ buffer[s] = Last(whole)
               /\ PageState = HandleLines(InitialPageState, Front(whole))

C5_Witness ==
    \E s \in Sessions :
        /\ pc[s] = "read"
        /\ Len(handled[s]) = 2
        /\ evLog # <<>>
        /\ Len(buffer[s]) > 1
        /\ Last(buffer[s]) = NL
        /\ wire[s] = <<NL>>

(***************************************************************************)
(* C6: a data line whose payload is not JSON is skipped and the session    *)
(* goes on: the page state is the one that handling the other lines        *)
(* alone produces, still loading, with no failure result made up.          *)
(***************************************************************************)
BadJson(line) ==
    StartsWith(line, DataPrefix) /\ ~HasJson(Slice(line, Len(DataPrefix)))
GoodLine(line) == ~BadJson(line)

C6_MalformedFrameSkipped ==
    \A s \in Sessions :
        pc[s] = "read" =>
            /\ PageState
                 = HandleLines(InitialPageState, SelectSeq(handled[s], GoodLine))
            /\ isLoading
            /\ result # NetworkError

C6_Witness ==
    \E s \in Sessions :
        /\ pc[s] = "read"
        /\ handled[s] = <<DataLine(AnalyzeActiveM), BadLine,
                          DataLine(ResultSuccessX)>>
        /\ Len(steps) = 1
        /\ result = [success |-> TRUE, data |-> DataX]
        /\ processingComplete

(***************************************************************************)
(* C7: a call of handleUpload that ends in its catch block (the request    *)
(* rejected, the response had no body, a read rejected) ends with the      *)
(* ERR_NETWORK failure as result and isLoading false.                      *)
(***************************************************************************)
C7_TransportFailureSurfaced ==
    [][\A s \in Sessions :
         (pc[s] \in {"fetch", "read"} /\ pc'[s] = "failed")
             => (result' = NetworkError /\ ~isLoading')]_vars

C7_Witness ==
    \E s \in Sessions :
        /\ pc[s] = "failed"
        /\ steps # <<>>
        /\ result = NetworkError
        /\ result.error.code = "ERR_NETWORK"
        /\ ~isLoading

(***************************************************************************)
(* C8: every call of handleUpload that ends leaves a non-null result and   *)
(* isLoading false.                                                        *)
(***************************************************************************)
C8_EndedSessionHasResult ==
    [][\A s \in Sessions :
         (pc[s] \in {"fetch", "read"} /\ pc'[s] \in {"returned", "failed"})
             => (result' # NULL /\ ~isLoading')]_vars

C10_UploadResetsSession ==
    [][nsess' = nsess + 1 =>
         /\ steps' = <<>>
         /\ result' = NULL
         /\ ~processingComplete'
         /\ pc'[nsess'] = "fetch"
         /\ handled'[nsess'] = <<>>]_vars

C10_Witness ==
    /\ nsess = 2
    /\ pc[2] = "fetch"
    /\ discarded # NothingDiscarded
    /\ discarded.steps # <<>>
    /\ discarded.result # NULL
    /\ discarded.processingComplete
    /\ steps = <<>>
    /\ result = NULL
    /\ ~processingComplete

(***************************************************************************)
(* C11: at every moment at most one call of handleUpload is between its    *)
(* start and its finally block, whatever the user does with the file, the  *)
(* modals and the save in between: no second call starts while an earlier  *)
(* one still awaits its response or still reads.                           *)
(***************************************************************************)
Active(s) == pc[s] \in {"fetch", "read"}

C11_OneActiveSession ==
    \A s, t \in Sessions : (Active(s) /\ Active(t)) => s = t

C11_Witness ==
    /\ nsess = 2
    /\ pc[1] = "returned"
    /\ pc[2] = "read"
    /\ showEditModal
    /\ editedData # NULL
    /\ isLoading

(***************************************************************************)
(* C12: a call of handleUpload that still awaits its response has left     *)
(* nothing of an earlier session behind: no step, no result, no            *)
(* completion flag and no edited data.                                     *)
(***************************************************************************)
C12_SessionStartsClean ==
    \A s \in Sessions :
        pc[s] = "fetch" =>
            /\ steps = <<>>
            /\ result = NULL
            /\ ~processingComplete
            /\ editedData = NULL

(***************************************************************************)
(* What one call of handleEditField did: the contents of the snapshot      *)
(* before the call and of the snapshot the call has set.                   *)
(***************************************************************************)
Before == Contents(editedData, heap)
After == Contents(editedData', heap')
Edited == nedits' = nedits + 1

RECURSIVE LineTotalsSum(_)
LineTotalsSum(items) ==
    IF items = <<>> THEN 0 ELSE Head(items).total + LineTotalsSum(Tail(items))

SameTotals == After.totals = Before.totals
Extracted == Head(evLog).data.extraction.data

(***************************************************************************)
(* C13: an edit of a quantity or of a unit price leaves the subtotal       *)
(* equal to the sum of the line totals, the tax amount equal to            *)
(* subtotal x tax_rate / 100, the total equal to subtotal + tax amount +   *)
(* shipping, and tax_rate and shipping as they were.                       *)
(***************************************************************************)
C13_TotalsRecomputed ==
    [][\A i \in ItemKeys, text \in NumberTexts :
          (EditQuantityInput(i, text) \/ EditPriceInput(i, text)) =>
             /\ After.totals.subtotal = LineTotalsSum(After.line_items)
             /\ After.totals.tax_amount * 100
                  = After.totals.subtotal * After.totals.tax_rate
             /\ After.totals.total
                  = After.totals.subtotal + After.totals.tax_amount
                      + After.totals.shipping
             /\ After.totals.tax_rate = Before.totals.tax_rate
             /\ After.totals.shipping = Before.totals.shipping]_vars

C13_Witness ==
    /\ nedits = 1
    /\ Extracted = InvoiceY
    /\ heap.line_items[2]
         = LineItem("B-2", "Gadget", 1, Amount(80, 0), Amount(80, 0))
    /\ heap.totals
         = Totals(Amount(100, 0), 8, Amount(8, 0), Amount(5, 0), Amount(113, 0))

EditOfItem(i) ==
    \/ \E name \in ItemTextFields, text \in InputTexts :
          EditItemTextInput(i, name, text)
    \/ \E text \in NumberTexts : EditQuantityInput(i, text)
    \/ \E text \in NumberTexts : EditPriceInput(i, text)

C15_TextEditKeepsAmounts ==
    [][\A i \in ItemKeys, name \in ItemTextFields, text \in InputTexts :
          EditItemTextInput(i, name, text) =>
             /\ After.line_items[ParseInt(i) + 1].total
                  = Before.line_items[ParseInt(i) + 1].total
             /\ After.totals.subtotal = Before.totals.subtotal
             /\ After.totals.tax_amount = Before.totals.tax_amount
             /\ After.totals.total = Before.totals.total]_vars

(***************************************************************************)
(* C16: an edit of a header field sets that field and nothing else:        *)
(* the other header fields, the line items and the totals are as before.   *)
(***************************************************************************)
C16_HeaderEditFrame ==
    [][\A name \in HeaderFields, text \in InputTexts :
          EditHeaderInput(name, text) =>
             /\ After.header[name] = text
             /\ \A other \in HeaderFields \ {name} :
                    After.header[other] = Before.header[other]
             /\ After.line_items = Before.line_items
             /\ SameTotals]_vars

C16_Witness ==
    /\ nedits = 1
    /\ Extracted = InvoiceY
    /\ heap.header = [HeaderX EXCEPT !.company_name = "edited"]
    /\ heap.line_items = InvoiceY.line_items
    /\ heap.totals = InvoiceY.totals

(***************************************************************************)
(* C17: a text that is no number, typed into a quantity or a unit price,   *)
(* is applied as 0; the line total, the subtotal, the tax amount and the   *)
(* total are numbers afterwards.                                           *)
(***************************************************************************)
IsNumber(x) == x # NaN

NumbersAfter(k) ==
    /\ IsNumber(After.line_items[k].total)
    /\ IsNumber(After.totals.subtotal)
    /\ IsNumber(After.totals.tax_amount)
    /\ IsNumber(After.totals.total)

C17_UnparsableAppliedAsZero ==
    [][\A i \in ItemKeys, text \in NumberTexts :
          /\ (ParseInt(text) = NaN /\ EditQuantityInput(i, text)) =>
                /\ After.line_items[ParseInt(i) + 1].quantity = 0
                /\ NumbersAfter(ParseInt(i) + 1)
          /\ (ParseFloat(text) = NaN /\ EditPriceInput(i, text)) =>
                /\ After.line_items[ParseInt(i) + 1].unit_price = 0
                /\ NumbersAfter(ParseInt(i) + 1)]_vars

C17_Witness ==
    /\ nedits = 1
    /\ Extracted = InvoiceX
    /\ heap.line_items[1] = LineItem("A-1", "Widget", 0, Amount(10, 0), 0)
    /\ heap.totals
         = Totals(Amount(80, 0), 8, Amount(6, 40), Amount(5, 0), Amount(91, 40))

(***************************************************************************)
(* C18: handleEditField leaves the snapshot it was given as it was: every  *)
(* field of the previous editedData reads the same after the call.         *)
(***************************************************************************)
C18_PreviousSnapshotUnchanged ==
    [][Edited => Contents(editedData, heap') = Contents(editedData, heap)]_vars

(***************************************************************************)
(* C19: the extraction data that a successful handleSaveEdits has put      *)
(* into result is not changed by a later handleEditField.                  *)
(***************************************************************************)
PersistedByClient ==
    Saved(result) /\ IsTopObject(result.data.extraction.data)

C19_PersistedDataImmutable ==
    [][(Edited /\ PersistedByClient) =>
          Contents(result'.data.extraction.data, heap')
            = Contents(result.data.extraction.data, heap)]_vars

(***************************************************************************)
(* C20: once result.data.database.saved is true, no save request is        *)
(* issued any more.                                                        *)
(***************************************************************************)
C20_NoSaveOnceSaved ==
    [][(savePc # "pending" /\ savePc' = "pending") => ~Saved(result)]_vars

(***************************************************************************)
(* C21: an edit of the quantity or of the unit price of line item i puts   *)
(* the given value into that field, leaves the other of the two as it      *)
(* was, makes the total of the line quantity x unit_price of the values    *)
(* after the edit, and changes no field of any other line item.            *)
(***************************************************************************)
OtherLinesSame(k) ==
    \A j \in DOMAIN After.line_items :
        j # k => After.line_items[j] = Before.line_items[j]

LineTotalIsProduct(k) ==
    After.line_items[k].total
      = After.line_items[k].quantity * After.line_items[k].unit_price

C21_LineEdit ==
    [][\A i \in ItemKeys, text \in NumberTexts :
          LET k == ParseInt(i) + 1 IN
          /\ EditQuantityInput(i, text) =>
                /\ After.line_items[k].quantity = OrZero(ParseInt(text))
                /\ After.line_items[k].unit_price = Before.line_items[k].unit_price
                /\ LineTotalIsProduct(k)
                /\ OtherLinesSame(k)
          /\ EditPriceInput(i, text) =>
                /\ After.line_items[k].unit_price = OrZero(ParseFloat(text))
                /\ After.line_items[k].quantity = Before.line_items[k].quantity
                /\ LineTotalIsProduct(k)
                /\ OtherLinesSame(k)]_vars

C21_Witness ==
    /\ nedits = 1
    /\ Extracted = InvoiceY
    /\ heap.line_items[1]
         = LineItem("A-1", "Widget", 2, Amount(1, 0), Amount(2, 0))
    /\ heap.line_items[2] = InvoiceY.line_items[2]

(***************************************************************************)
(* C22: the status shown for a step never goes back: across every step of  *)
(* the read loop, a step that stays in the list has a status at least as   *)
(* far on (pending, then active, then complete or error) as before.        *)
(***************************************************************************)
Rank(status) ==
    CASE status = "pending" -> 0
      [] status = "active" -> 1
      [] OTHER -> 2

C22_StatusMovesForward ==
    [][\A i \in DOMAIN steps :
          (i \in DOMAIN steps' /\ steps'[i].id = steps[i].id) =>
              Rank(steps'[i].status) >= Rank(steps[i].status)]_vars

(***************************************************************************)
(* C23: handleSaveEdits sends the contents of the current editedData;      *)
(* when the response says success, result has database = {saved: true,     *)
(* order_id: the identifier of the response} and, as extraction data, the  *)
(* contents that were sent; the edit modal is closed and the results       *)
(* modal open.                                                             *)
(***************************************************************************)
C23_SaveSuccessEffect ==
    [][/\ HandleSaveEdits =>
             saveCall'.body = [data |-> Contents(editedData, heap)]
       /\ SaveSucceed =>
             /\ HasData(result')
             /\ result'.data.database = [saved |-> TRUE, order_id |-> OrderId]
             /\ Contents(result'.data.extraction.data, heap')
                  = saveCall.body.data
             /\ ~showEditModal'
             /\ showResultsModal']_vars

(***************************************************************************)
(* C28: a save that fails (the response says success = false, or the       *)
(* request or the decoding of its response throws) leaves result,          *)
(* editedData and the two modals as they were, and isLoading false.        *)
(***************************************************************************)
C28_FailedSaveChangesNothing ==
    [][(SaveRefused \/ SaveReject) =>
          /\ result' = result
          /\ editedData' = editedData
          /\ Contents(editedData', heap') = Contents(editedData, heap)
          /\ showEditModal' = showEditModal
          /\ showResultsModal' = showResultsModal
          /\ ~isLoading']_vars

C28_Witness ==
    /\ savePc = "rejected"
    /\ ~isLoading
    /\ showEditModal
    /\ ~showResultsModal
    /\ editedData # NULL
    /\ HasData(result)
    /\ ~Saved(result)

(***************************************************************************)
(* C24: processingComplete is true exactly when result is a successful     *)
(* result.                                                                 *)
(***************************************************************************)
C24_CompleteIffSuccess ==
    processingComplete <=> (result # NULL /\ result.success)

(***************************************************************************)
(* C25: whenever a Save to Database button is offered and enabled, so      *)
(* that handleSaveEdits would send a request, result is a successful       *)
(* result that carries data.                                               *)
(***************************************************************************)
CanSave ==
    /\ Mounted
    /\ showEditModal \/ (showResultsModal /\ ~Saved(result))
    /\ ~isLoading
    /\ savePc # "pending"
    /\ editedData # NULL

C25_SaveOnlyWithData ==
    CanSave => (HasData(result) /\ result.success)

(***************************************************************************)
(* C26, for resetForm: while no file is selected (resetForm has removed    *)
(* it, and handleUpload cannot start without one) steps, result and        *)
(* processingComplete are empty, null and false.                           *)
(***************************************************************************)
C26_ClearedStaysCleared ==
    file = NULL => (steps = <<>> /\ result = NULL /\ ~processingComplete)

(***************************************************************************)
(* C27: when the stream ends, the text left in the buffer, which no blank  *)
(* line followed, is dropped without being parsed: the end of the read     *)
(* loop changes no step, no result, no completion flag and no edited       *)
(* data.                                                                   *)
(***************************************************************************)
C27_UnterminatedFrameDropped ==
    [][\A s \in Sessions :
          (pc[s] = "read" /\ pc'[s] = "returned") => PageState' = PageState]_vars

C27_Witness ==
    /\ pc[1] = "returned"
    /\ discarded = [buffer |-> DataLine(ResultSuccessX)]
    /\ result = NULL
    /\ steps = <<>>
    /\ ~processingComplete

(***************************************************************************)
(* C29.  On the invoices page, once every order-list request has settled,  *)
(* the displayed orders and pagination metadata are those the server       *)
(* returned for the current value of page, whatever the interleaving of    *)
(* Previous/Next clicks and the order of the responses; and page is never  *)
(* below 1.  Stated for the runs in which the request for the current      *)
(* page, the one issued last, has succeeded.                               *)
(***************************************************************************)
PendingOrders == { r \in ordersRequests : r.status = "pending" }
LatestOrders == { r \in ordersRequests : r.id = nOrdersRequests }
AllOrdersSucceeded == \A r \in ordersRequests : r.status = "succeeded"

C29_SettledShowsCurrentPage ==
    /\ page >= 1
    /\ (/\ nOrdersRequests > 0
        /\ PendingOrders = {}
        /\ \A r \in LatestOrders : r.page = page /\ r.status = "succeeded")
       => /\ orders = OrdersResponse(page).data.items
          /\ pagination = OrdersResponse(page).meta

(***************************************************************************)
(* C30.  On the invoices page expandedOrder is always null or an order     *)
(* whose line items are in orderDetails; a details request that fails or   *)
(* comes back unsuccessful leaves expandedOrder as it was; and a click on  *)
(* an order whose details are loaded toggles expandedOrder between that    *)
(* order and null and issues no request.                                   *)
(***************************************************************************)
C30_ExpandedOrderHasDetails ==
    /\ [](expandedOrder = NoOrder \/ HasDetails(expandedOrder))
    /\ [][\A r \in detailsRequests :
            (DetailsUnsuccessful(r) \/ DetailsReject(r))
               => expandedOrder' = expandedOrder]_vars
    /\ [][\A orderId \in OrderIds :
            (HasDetails(orderId) /\ FetchOrderDetails(orderId))
               => /\ detailsRequests' = detailsRequests
                  /\ nDetailsRequests' = nDetailsRequests
                  /\ expandedOrder' =
                        IF expandedOrder = orderId THEN NoOrder
                        ELSE orderId]_vars

C30_Witness ==
    /\ \E r \in detailsRequests : r.status \in {"unsuccessful", "rejected"}
    /\ \E r \in detailsRequests :
          /\ r.status = "succeeded"
          /\ HasDetails(r.orderId)
          /\ expandedOrder = NoOrder

====
